---- MODULE Spec2Model ----
(***************************************************************************)
(* Password service: policy, character classes, validator, generator,     *)
(* scorer, the orchestration flows and the HTTP routes in front of them.   *)
(*                                                                         *)
(* A Python str is a sequence of one-character strings.  An optional       *)
(* value (str | None, int | None) is None == <<>> or Some(v) == <<v>>.     *)
(* One behaviour is one invocation: Init draws the call and its            *)
(* arguments, the action of that operation runs it to completion.          *)
(***************************************************************************)
EXTENDS Integers, Sequences, FiniteSets

VARIABLES
    call,       \* the invocation: [op, password, length]
    outcome,    \* "pending", "returned", "ValueError" or "rejected"
    ret,        \* what the flow returned: [pwd, validation, strength]
    drawn,      \* number of secrets.choice draws made
    generated,  \* number of passwords generate_password produced
    flowRan,    \* whether a service flow was entered
    response    \* the route's answer: [status, password, validation, strength]

vars == <<call, outcome, ret, drawn, generated, flowRan, response>>

(***************************** bounds **************************************)
\* Longest input password enumerated character by character.
MaxCore == 2
\* Number of filler draws of a generation that are chosen independently.
MaxFreeDraws == 1
\* Highest list index whose Fisher-Yates step picks its partner freely.
MaxShuffleIdx == 3

(***************************** helpers *************************************)
None == <<>>
Some(v) == <<v>>

Min(a, b) == IF a < b THEN a ELSE b
Max(a, b) == IF a > b THEN a ELSE b

Run(c, n) == [i \in 1..n |-> c]

\* Python `ch in charset`
In(ch, charset) == \E i \in 1..Len(charset) : charset[i] = ch

\* Python any(ch in charset for ch in password)
AnyIn(password, charset) == \E i \in 1..Len(password) : In(password[i], charset)

\* Python truthiness of `str | None` and of `int | None`
TruthyStr(x) == x # None /\ x[1] # <<>>
TruthyInt(x) == x # None /\ x[1] # 0

(***************************** security.py *********************************)
\* string.punctuation holds the grave accent (0x60) between "_" and "{"; the
\* lexer cannot hold that character in a string, so it is written "grave".
UPPERCASE == <<"A","B","C","D","E","F","G","H","I","J","K","L","M",
               "N","O","P","Q","R","S","T","U","V","W","X","Y","Z">>
LOWERCASE == <<"a","b","c","d","e","f","g","h","i","j","k","l","m",
               "n","o","p","q","r","s","t","u","v","w","x","y","z">>
DIGITS == <<"0","1","2","3","4","5","6","7","8","9">>
SYMBOLS == <<"!","\"","#","$","%","&","'","(",")","*","+",",","-",".","/",
             ":",";","<","=",">","?","@","[","\\","]","^","_","grave","{","|",
             "}","~">>
FULL_SET == UPPERCASE \o LOWERCASE \o DIGITS \o SYMBOLS

(***************************** config.py ***********************************)
min_length == 12
max_length == 128
default_length == 16

(***************************** validator.py ********************************)
check_length_strict(password) ==
    min_length <= Len(password) /\ Len(password) < max_length
check_length(password) ==
    min_length <= Len(password) /\ Len(password) <= max_length

check_upper(password) == AnyIn(password, UPPERCASE)
check_lower(password) == AnyIn(password, LOWERCASE)
check_digit(password) == AnyIn(password, DIGITS)
check_symbol(password) == AnyIn(password, SYMBOLS)

validate_password(password) ==
    [length_ok |-> check_length(password),
     upper_ok  |-> check_upper(password),
     lower_ok  |-> check_lower(password),
     digit_ok  |-> check_digit(password),
     symbol_ok |-> check_symbol(password)]

overall_result(v) ==
    v.length_ok /\ v.upper_ok /\ v.lower_ok /\ v.digit_ok /\ v.symbol_ok

(***************************** scoring.py **********************************)
\* Lengths above this add nothing to the base points.
length_cap == 20

label_from_score(s) ==
    IF s \in 0..3 THEN "weak"
    ELSE IF s \in 4..6 THEN "medium"
    ELSE IF s \in 7..10 THEN "strong"
    ELSE "unknown"

character_set_size(password) ==
    LET size == (IF AnyIn(password, UPPERCASE) THEN Len(UPPERCASE) ELSE 0)
              + (IF AnyIn(password, LOWERCASE) THEN Len(LOWERCASE) ELSE 0)
              + (IF AnyIn(password, DIGITS) THEN Len(DIGITS) ELSE 0)
              + (IF AnyIn(password, SYMBOLS) THEN Len(SYMBOLS) ELSE 0)
    IN Max(size, Len(LOWERCASE))

\* floor(1000 * log2(n)) for the sizes character_set_size can return.
Log2Milli(n) ==
    CASE n = 26 -> 4700 [] n = 32 -> 5000 [] n = 36 -> 5169 [] n = 42 -> 5392
      [] n = 52 -> 5700 [] n = 58 -> 5857 [] n = 62 -> 5954 [] n = 68 -> 6087
      [] n = 84 -> 6392 [] n = 94 -> 6554

\* log2(charset_size ** len(password)) in thousandths; 0 for the empty string.
entropy(password) ==
    IF password # <<>>
    THEN Len(password) * Log2Milli(character_set_size(password))
    ELSE 0

\* Python round(): to the nearest integer, ties to the even one (thousandths in).
round(milli) ==
    LET q == milli \div 1000
        r == milli % 1000
    IN IF r > 500 \/ (r = 500 /\ q % 2 = 1) THEN q + 1 ELSE q

repetition_penalty(password) ==
    IF \E i \in 1..Len(password) :
          2 * Cardinality({k \in 1..Len(password) : password[k] = password[i]})
             > Len(password)
    THEN -2000 ELSE 0

bounded_score_unclamped(raw_score) == round(raw_score)
bounded_score(raw_score) == Max(0, Min(10, round(raw_score)))

score(password) ==
    LET validation == validate_password(password)
        \* base * 0.4 with base = min(len, 20) / 2, in thousandths
        base_points == 200 * Min(Len(password), length_cap)
        diversity == (IF validation.upper_ok THEN 1 ELSE 0)
                   + (IF validation.lower_ok THEN 1 ELSE 0)
                   + (IF validation.digit_ok THEN 1 ELSE 0)
                   + (IF validation.symbol_ok THEN 1 ELSE 0)
        entropy_score == Min(entropy(password) \div 10, 4000)
        raw_score == base_points + diversity * 1500 + entropy_score
                     + repetition_penalty(password)
        bounded == bounded_score(raw_score)
    IN [score |-> bounded, label |-> label_from_score(bounded)]

(***************************** generator.py ********************************)
\* Outcomes of the secure random source's randbelow(n) that are explored:
\* the two extreme indices.
RandBelow(n) == {0, n - 1}

\* secrets.choice(characters)
choice(characters) == {characters[k + 1] : k \in RandBelow(Len(characters))}

\* _pick(characters, count): count draws; the first MaxFreeDraws are explored
\* independently, the later ones as repetitions of one further draw.
pick(characters, count) ==
    LET free == Min(count, MaxFreeDraws)
    IN {f \o Run(c, count - free) :
            f \in [1..free -> choice(characters)], c \in choice(characters)}

Swap(x, i, j) == [x EXCEPT ![i] = x[j], ![j] = x[i]]

\* random.shuffle: for i = len-1 down to 1, j = randbelow(i+1), swap x[i], x[j]
\* (0-based i, j).  Steps with i > MaxShuffleIdx are explored with j = i.
RECURSIVE fisher_yates(_, _)
fisher_yates(x, i) ==
    IF i < 1 THEN {x}
    ELSE UNION {fisher_yates(Swap(x, i + 1, j + 1), i - 1) : j \in 0..i}

shuffle_dropping_last(x) ==
    {SubSeq(y, 1, Len(y) - 1) : y \in fisher_yates(x, Min(Len(x) - 1, MaxShuffleIdx))}
shuffle(x) == fisher_yates(x, Min(Len(x) - 1, MaxShuffleIdx))

required_chars_without_symbol ==
    {<<u, l, d>> : u \in choice(UPPERCASE), l \in choice(LOWERCASE),
                   d \in choice(DIGITS)}
required_chars ==
    UNION {{<<u, l, d, s>> : u \in choice(UPPERCASE), l \in choice(LOWERCASE)} :
           d \in choice(DIGITS), s \in choice(SYMBOLS)}

exceeds_maximum_never(length) == FALSE
exceeds_maximum(length) == length > max_length

GenRaised(n) == [raised |-> TRUE, value |-> <<>>, drawn |-> n]

\* The set of outcomes of generate_password(length): a ValueError, or the
\* password, each with the number of characters drawn before it.
generate_password(length) ==
    LET len == IF TruthyInt(length) THEN length[1] ELSE default_length
    IN IF len < 4 THEN {GenRaised(0)}
       ELSE IF exceeds_maximum(len) THEN {GenRaised(0)}
       ELSE UNION {
              IF len < Len(req) THEN {GenRaised(Len(req))}
              ELSE LET remaining_length == len - Len(req)
                   IN UNION {{[raised |-> FALSE, value |-> chars,
                               drawn |-> Len(req) + remaining_length] :
                                 chars \in shuffle(req \o rest)} :
                             rest \in pick(FULL_SET, remaining_length)}
              : req \in required_chars}

(***************************** password_service.py *************************)
\* What a flow produced: raised (ValueError) or its return values, with the
\* draws made and the passwords generated on the way.
FlowResult(raised, pwd, validation, strength, n, made) ==
    [raised |-> raised, pwd |-> pwd, validation |-> validation,
     strength |-> strength, drawn |-> n, generated |-> made]

validate_flow(password) ==
    {FlowResult(FALSE, None, Some(validate_password(password)), None, 0, 0)}

generate_flow(length) ==
    {IF g.raised
     THEN FlowResult(TRUE, None, None, None, g.drawn, 0)
     ELSE FlowResult(FALSE, Some(g.value), None, None, g.drawn, 1) :
        g \in generate_password(length)}

strength_flow(password) ==
    {FlowResult(FALSE, None, None, Some(score(password)), 0, 0)}

\* pwd = password or generate_password(length); validate; score
full_flow(password, length) ==
    LET analysed(pwd, n, made) ==
            FlowResult(FALSE, Some(pwd), Some(validate_password(pwd)),
                       Some(score(pwd)), n, made)
    IN IF TruthyStr(password)
       THEN {analysed(password[1], 0, 0)}
       ELSE {IF g.raised
             THEN FlowResult(TRUE, None, None, None, g.drawn, 0)
             ELSE analysed(g.value, g.drawn, 1) :
                g \in generate_password(length)}

(***************************** request_schemas.py **************************)
\* PasswordRequest: password is required, min_length=1
PasswordRequest(password) == password # None /\ Len(password[1]) >= 1

\* GenerateRequest: length is None or ge=4, le=256
GenerateRequest(length) ==
    length = None \/ (4 <= length[1] /\ length[1] <= 256)

model_post_init_passes(password, length) == FALSE
\* FullRequest.model_post_init raises
model_post_init(password, length) ==
    ~TruthyStr(password) /\ ~TruthyInt(length)

\* FullRequest: the field constraints, then model_post_init
FullRequest(password, length) ==
    /\ length = None \/ (4 <= length[1] /\ length[1] <= 256)
    /\ ~model_post_init(password, length)

(***************************** routers/password.py *************************)
NoResponse ==
    [status |-> 0, password |-> None, validation |-> None, strength |-> None]

HTTPException(status_code) ==
    [status |-> status_code, password |-> None, validation |-> None,
     strength |-> None]

ValidationResponse(v) ==
    [length_ok |-> v.length_ok, upper_ok |-> v.upper_ok,
     lower_ok |-> v.lower_ok, digit_ok |-> v.digit_ok,
     symbol_ok |-> v.symbol_ok, overall_result |-> overall_result(v)]

full_response_password_echoed(request_password, password) == password
\* password if request.password is None else None
full_response_password(request_password, password) ==
    IF request_password = None THEN password ELSE None

\* The state a flow result leaves behind.
Completes(r) ==
    /\ outcome' = IF r.raised THEN "ValueError" ELSE "returned"
    /\ ret' = [pwd |-> r.pwd, validation |-> r.validation,
               strength |-> r.strength]
    /\ drawn' = r.drawn
    /\ generated' = r.generated
    /\ flowRan' = TRUE

\* The request failed its schema: the handler is never entered.
Rejected ==
    /\ outcome' = "rejected"
    /\ UNCHANGED <<ret, drawn, generated, flowRan, response>>

(***************************** the calls explored **************************)
InputChars == {"A", "B", "a", "0", "!", " "}

Cores == UNION {[1..k -> InputChars] : k \in 0..MaxCore}

PadTargets ==
    {min_length - 1, min_length, length_cap, max_length, max_length + 1}

\* core followed by c, repeated up to n characters (core itself when n is
\* no longer than core).
Padded(core, c, n) ==
    IF n <= Len(core) THEN core
    ELSE LET unit == core \o <<c>>
         IN [i \in 1..n |-> unit[((i - 1) % Len(unit)) + 1]]

\* The padding character: a lowercase letter or a character of no class.
PadChars == {"a", " "}

InputPasswords ==
    Cores \cup {Padded(core, c, n) : core \in Cores, c \in PadChars,
                                     n \in PadTargets}

Lengths ==
    {-1, 0, 1, 2, 3, 4, 5, min_length - 1, min_length, default_length,
     length_cap, max_length, max_length + 1, 256, 257}

OptLengths == {None} \cup {Some(n) : n \in Lengths}

Call(op, password, length) ==
    [op |-> op, password |-> password, length |-> length]

\* full_flow / the full route: without a password every length, with a
\* password (the empty one included) the lengths that would matter if
\* generation took place.
FullCalls(op) ==
    {Call(op, None, n) : n \in OptLengths}
    \cup {Call(op, Some(p), n) : p \in InputPasswords,
             n \in {None, Some(min_length), Some(max_length + 1)}}

Calls ==
    {Call(op, Some(p), None) :
        op \in {"validate_flow", "strength_flow", "route_validate",
                "route_strength"}, p \in InputPasswords}
    \cup {Call(op, None, None) : op \in {"route_validate", "route_strength"}}
    \cup {Call(op, None, n) : op \in {"generate_flow", "route_generate"},
                              n \in OptLengths}
    \cup FullCalls("full_flow") \cup FullCalls("route_full")

(***************************** state machine *******************************)
Init ==
    /\ call \in Calls
    /\ outcome = "pending"
    /\ ret = [pwd |-> None, validation |-> None, strength |-> None]
    /\ drawn = 0
    /\ generated = 0
    /\ flowRan = FALSE
    /\ response = NoResponse

Pending(op) == call.op = op /\ outcome = "pending"

ValidateFlow ==
    /\ Pending("validate_flow")
    /\ \E r \in validate_flow(call.password[1]) : Completes(r)
    /\ UNCHANGED <<call, response>>

GenerateFlow ==
    /\ Pending("generate_flow")
    /\ \E r \in generate_flow(call.length) : Completes(r)
    /\ UNCHANGED <<call, response>>

StrengthFlow ==
    /\ Pending("strength_flow")
    /\ \E r \in strength_flow(call.password[1]) : Completes(r)
    /\ UNCHANGED <<call, response>>

FullFlow ==
    /\ Pending("full_flow")
    /\ \E r \in full_flow(call.password, call.length) : Completes(r)
    /\ UNCHANGED <<call, response>>

\* POST /password/validate
RouteValidate ==
    /\ Pending("route_validate")
    /\ IF ~PasswordRequest(call.password) THEN Rejected
       ELSE \E r \in validate_flow(call.password[1]) :
              /\ Completes(r)
              /\ response' = [status |-> 200, password |-> None,
                              validation |-> Some(ValidationResponse(r.validation[1])),
                              strength |-> None]
    /\ UNCHANGED call

\* POST /password/generate
RouteGenerate ==
    /\ Pending("route_generate")
    /\ IF ~GenerateRequest(call.length) THEN Rejected
       ELSE \E r \in generate_flow(call.length) :
              /\ Completes(r)
              /\ response' = IF r.raised THEN HTTPException(400)
                             ELSE [status |-> 200, password |-> r.pwd,
                                   validation |-> None, strength |-> None]
    /\ UNCHANGED call

\* POST /password/strength
RouteStrength ==
    /\ Pending("route_strength")
    /\ IF ~PasswordRequest(call.password) THEN Rejected
       ELSE \E r \in strength_flow(call.password[1]) :
              /\ Completes(r)
              /\ response' = [status |-> 200, password |-> None,
                              validation |-> None, strength |-> r.strength]
    /\ UNCHANGED call

\* POST /password/full
RouteFull ==
    /\ Pending("route_full")
    /\ IF ~FullRequest(call.password, call.length) THEN Rejected
       ELSE \E r \in full_flow(call.password, call.length) :
              /\ Completes(r)
              /\ response' =
                   IF r.raised THEN HTTPException(400)
                   ELSE [status |-> 200,
                         password |-> full_response_password(call.password, r.pwd),
                         validation |-> Some(ValidationResponse(r.validation[1])),
                         strength |-> r.strength]
    /\ UNCHANGED call

Next ==
    \/ ValidateFlow
    \/ GenerateFlow
    \/ StrengthFlow
    \/ FullFlow
    \/ RouteValidate
    \/ RouteGenerate
    \/ RouteStrength
    \/ RouteFull

Spec == Init /\ [][Next]_vars

(***************************** claims **************************************)
Chars(p) == {p[i] : i \in 1..Len(p)}
Members(charset) == {charset[i] : i \in 1..Len(charset)}
HasClass(p, charset) == Chars(p) \cap Members(charset) # {}
HasAllClasses(p) ==
    /\ HasClass(p, UPPERCASE)
    /\ HasClass(p, LOWERCASE)
    /\ HasClass(p, DIGITS)
    /\ HasClass(p, SYMBOLS)

\* C1: for every length L with 4 <= L <= max_length and every outcome of the
\* draws and of the shuffle, generate_password(L) returns a password of
\* exactly L characters holding an uppercase letter, a lowercase letter, a
\* digit and a symbol.
C1_GeneratedLengthAndClasses ==
    (/\ call.op = "generate_flow"
     /\ outcome # "pending"
     /\ call.length # None
     /\ 4 <= call.length[1]
     /\ call.length[1] <= max_length)
    => /\ outcome = "returned"
       /\ ret.pwd # None
       /\ Len(ret.pwd[1]) = call.length[1]
       /\ HasAllClasses(ret.pwd[1])

\* A generated 5-character password whose shuffle moved the symbol seed to
\* the front and whose filler draw is not a symbol.
C1_Witness ==
    /\ call.op = "generate_flow"
    /\ outcome = "returned"
    /\ call.length = Some(5)
    /\ ret.pwd[1][1] \in Members(SYMBOLS)
    /\ ret.pwd[1][5] \in Members(UPPERCASE)

\* C2: every integer length below 4 passed to generate_password (3, 2, 1, 0
\* and negative values) fails with ValueError and returns no password; the
\* length is never replaced by another one.
C2_LengthBelowFourRaises ==
    (/\ call.op = "generate_flow"
     /\ outcome # "pending"
     /\ call.length # None
     /\ call.length[1] < 4)
    => /\ outcome = "ValueError"
       /\ ret.pwd = None
       /\ generated = 0

\* C3: for every password, score returns a score in 0..10 with the label
\* "weak" for 0..3, "medium" for 4..6 and "strong" for 7..10, never "unknown",
\* and never raises.
C3_ScoreBoundedAndLabelled ==
    /\ (call.op = "strength_flow" /\ outcome # "pending")
          => (outcome = "returned" /\ ret.strength # None)
    /\ ret.strength # None =>
          LET s == ret.strength[1]
          IN /\ s.score \in 0..10
             /\ s.score <= 3 => s.label = "weak"
             /\ (4 <= s.score /\ s.score <= 6) => s.label = "medium"
             /\ 7 <= s.score => s.label = "strong"
             /\ s.label \in {"weak", "medium", "strong"}

\* A 20-character password of three classes without a dominant character:
\* its raw score is 12.5, reported as 10 "strong".
C3_Witness ==
    /\ call.op = "strength_flow"
    /\ outcome = "returned"
    /\ Len(call.password[1]) = length_cap
    /\ Chars(call.password[1]) = {"A", "0", "a"}
    /\ ret.strength[1] = [score |-> 10, label |-> "strong"]

\* C4: for every string, the empty one included, validate_password returns
\* without raising; length_ok holds exactly when min_length <= len <=
\* max_length, each class flag exactly when a character of the class occurs,
\* and overall_result is the conjunction of the five flags.
C4_ValidationFlags ==
    /\ (call.op = "validate_flow" /\ outcome # "pending") =>
          /\ outcome = "returned"
          /\ ret.validation # None
          /\ LET p == call.password[1]
                 v == ret.validation[1]
             IN /\ v.length_ok <=> (min_length <= Len(p) /\ Len(p) <= max_length)
                /\ v.upper_ok <=> HasClass(p, UPPERCASE)
                /\ v.lower_ok <=> HasClass(p, LOWERCASE)
                /\ v.digit_ok <=> HasClass(p, DIGITS)
                /\ v.symbol_ok <=> HasClass(p, SYMBOLS)
    /\ (call.op = "route_validate" /\ outcome = "returned") =>
          LET v == response.validation[1]
          IN v.overall_result <=>
                (v.length_ok /\ v.upper_ok /\ v.lower_ok /\ v.digit_ok
                 /\ v.symbol_ok)

\* A password of exactly max_length characters is validated: length_ok.
C4_Witness ==
    /\ call.op = "validate_flow"
    /\ outcome = "returned"
    /\ Len(call.password[1]) = max_length
    /\ ret.validation[1].length_ok
    /\ ret.validation[1].upper_ok
    /\ ~ret.validation[1].symbol_ok

\* C5: every accepted /password/full request that supplied a password is
\* answered with the password field absent, whatever length came with it.
C5_SuppliedPasswordNotEchoed ==
    (/\ call.op = "route_full"
     /\ outcome = "returned"
     /\ call.password # None)
    => /\ response.status = 200
       /\ response.password = None

\* An accepted full request with a non-empty password and a length.
C5_Witness ==
    /\ call.op = "route_full"
    /\ outcome = "returned"
    /\ call.password # None
    /\ call.password[1] # <<>>
    /\ call.length = Some(min_length)
    /\ response.status = 200
    /\ response.validation # None

\* C6: whenever full_flow is called with a password that is not None (the
\* empty string included, with or without a length), nothing is generated and
\* the password comes back unchanged with validate_password and score of it.
C6_SuppliedPasswordAnalysedUnchanged ==
    (/\ call.op = "full_flow"
     /\ outcome # "pending"
     /\ call.password # None)
    => /\ outcome = "returned"
       /\ generated = 0
       /\ ret.pwd = call.password
       /\ ret.validation = Some(validate_password(call.password[1]))
       /\ ret.strength = Some(score(call.password[1]))

\* C7: for every L with min_length <= L <= max_length and every outcome of
\* the draws, full_flow(None, L) returns a generated password of exactly L
\* characters whose validation has all five flags true.
C7_GeneratedPasswordValidates ==
    (/\ call.op = "full_flow"
     /\ outcome # "pending"
     /\ call.password = None
     /\ call.length # None
     /\ min_length <= call.length[1]
     /\ call.length[1] <= max_length)
    => /\ outcome = "returned"
       /\ generated = 1
       /\ Len(ret.pwd[1]) = call.length[1]
       /\ ret.validation[1].length_ok
       /\ ret.validation[1].upper_ok
       /\ ret.validation[1].lower_ok
       /\ ret.validation[1].digit_ok
       /\ ret.validation[1].symbol_ok
       /\ overall_result(ret.validation[1])

\* full_flow(None, 20) returned a generated 20-character password.
C7_Witness ==
    /\ call.op = "full_flow"
    /\ outcome = "returned"
    /\ call.password = None
    /\ call.length = Some(20)
    /\ generated = 1
    /\ Len(ret.pwd[1]) = 20

\* C8: a full-analysis request with neither a password nor a length fails at
\* the construction of FullRequest: full_flow is not run and nothing is
\* generated, validated or scored for it.
C8_EmptyFullRequestRejected ==
    (/\ call.op = "route_full"
     /\ outcome # "pending"
     /\ call.password = None
     /\ call.length = None)
    => /\ outcome = "rejected"
       /\ ~flowRan
       /\ generated = 0
       /\ drawn = 0
       /\ ret = [pwd |-> None, validation |-> None, strength |-> None]
       /\ response = NoResponse

\* The request without password and length has been rejected.
C8_Witness ==
    /\ call.op = "route_full"
    /\ call.password = None
    /\ call.length = None
    /\ outcome = "rejected"

\* C9: for every length above max_length, generate_password raises ValueError
\* before a character is drawn, and /password/generate and /password/full
\* (when generation is needed) answer 400 with no password.
C9_LengthAboveMaximumRaises ==
    /\ (/\ call.op = "generate_flow"
        /\ outcome # "pending"
        /\ call.length # None
        /\ call.length[1] > max_length)
       => (outcome = "ValueError" /\ drawn = 0 /\ ret.pwd = None)
    /\ (/\ call.op = "route_generate"
        /\ outcome \notin {"pending", "rejected"}
        /\ call.length # None
        /\ call.length[1] > max_length)
       => /\ outcome = "ValueError"
          /\ drawn = 0
          /\ response.status = 400
          /\ response.password = None
    /\ (/\ call.op = "route_full"
        /\ outcome \notin {"pending", "rejected"}
        /\ ~TruthyStr(call.password)
        /\ call.length # None
        /\ call.length[1] > max_length)
       => /\ outcome = "ValueError"
          /\ drawn = 0
          /\ response.status = 400
          /\ response.password = None

\* The full route answered 400 to a request to generate max_length + 1
\* characters.
C9_Witness ==
    /\ call.op = "route_full"
    /\ call.password = None
    /\ call.length = Some(max_length + 1)
    /\ outcome = "ValueError"
    /\ response.status = 400

\* C10: whenever full_flow generated the password that an accepted
\* /password/full request had validated and scored, the response carries that
\* password (also when the password field was present but empty).
C10_GeneratedPasswordReturned ==
    (/\ call.op = "route_full"
     /\ outcome = "returned"
     /\ generated > 0)
    => response.password = ret.pwd

====
